---- MODULE Spec2Model ----
(***************************************************************************)
(* The game-state transition engine of src/src/main.ts (lines 1-632, the   *)
(* canonical snapshot): the reducer that folds the merged stream of tick,  *)
(* move, rotate, down and restart actions over one State value.            *)
(*                                                                         *)
(* A grid is a function row -> column -> BOOLEAN, rows 0..GRID_HEIGHT-1    *)
(* from the top, FALSE for the source's null and TRUE for its true.  A     *)
(* block is a sequence of 4 squares [x, y]; square 1 is the source's       *)
(* currentSquare[0], the rotation centre.                                  *)
(***************************************************************************)
EXTENDS Integers, Sequences, FiniteSets

GRID_WIDTH == 10
GRID_HEIGHT == 20

\* Length of the action stream consumed after the start state.
MaxSteps == 3

VARIABLES gameEnd, gameState, currentSquare, score, nextBlock, level,
          highScore, threw, last, steps

vars == <<gameEnd, gameState, currentSquare, score, nextBlock, level,
          highScore, threw, last, steps>>

\* The fields of the source's State.
stateVars == <<gameEnd, gameState, currentSquare, score, nextBlock, level,
               highScore>>

Rows == 0 .. (GRID_HEIGHT - 1)
Cols == 0 .. (GRID_WIDTH - 1)

Sq(a, b) == [x |-> a, y |-> b]

\* The seven shapes, in the source's order: I, J, L, O, S, T, Z.
shapes ==
  << << Sq(-1, 0),  Sq(0, 0),  Sq(1, 0),  Sq(2, 0)  >>,
     << Sq(-1, -1), Sq(-1, 0), Sq(0, 0),  Sq(1, 0)  >>,
     << Sq(-1, 0),  Sq(0, 0),  Sq(1, 0),  Sq(1, -1) >>,
     << Sq(-1, -1), Sq(-1, 0), Sq(0, -1), Sq(0, 0)  >>,
     << Sq(-1, 0),  Sq(0, 0),  Sq(0, -1), Sq(1, -1) >>,
     << Sq(-1, 0),  Sq(0, -1), Sq(0, 0),  Sq(1, 0)  >>,
     << Sq(-1, -1), Sq(0, -1), Sq(0, 0),  Sq(1, 0)  >> >>

\* Math.floor(Math.random() * shapes.length) ranges over these.
ShapeIndexes == 0 .. (Len(shapes) - 1)

MinY(shape) == CHOOSE m \in {shape[i].y : i \in 1..Len(shape)} :
                 \A i \in 1..Len(shape) : m <= shape[i].y

\* generateRandomBlock without initialY: the offsets' rows as they are.
generateRandomBlock_unnormalised(shapeIndex) ==
  LET shape    == shapes[shapeIndex + 1]
      initialX == GRID_WIDTH \div 2
  IN  [i \in 1..Len(shape) |->
         Sq(shape[i].x + initialX, shape[i].y)]

\* generateRandomBlock spawning at the left wall instead of mid-grid.
generateRandomBlock_atLeftWall(shapeIndex) ==
  LET shape    == shapes[shapeIndex + 1]
      initialY == MinY(shape)
  IN  [i \in 1..Len(shape) |->
         Sq(shape[i].x, shape[i].y - initialY)]

\* generateRandomBlock, with the random draw as its argument.
generateRandomBlock(shapeIndex) ==
  LET shape    == shapes[shapeIndex + 1]
      initialX == GRID_WIDTH \div 2
      initialY == MinY(shape)
  IN  [i \in 1..Len(shape) |->
         Sq(shape[i].x + initialX, shape[i].y - initialY)]

\* falling moving the first square only.
falling_firstOnly(square) ==
  [i \in 1..Len(square) |->
     Sq(square[i].x, square[i].y + (IF i = 1 THEN 1 ELSE 0))]

falling(square) ==
  [i \in 1..Len(square) |-> Sq(square[i].x, square[i].y + 1)]

\* updateGameState ignoring `value`: it always writes true.
updateGameState_alwaysFills(squares, grid, value) ==
  [rowIndex \in DOMAIN grid |->
     [columnIndex \in DOMAIN grid[rowIndex] |->
        IF \E i \in 1..Len(squares) :
             squares[i].y = rowIndex /\ squares[i].x = columnIndex
        THEN TRUE
        ELSE grid[rowIndex][columnIndex]]]

updateGameState(squares, grid, value) ==
  [rowIndex \in DOMAIN grid |->
     [columnIndex \in DOMAIN grid[rowIndex] |->
        IF \E i \in 1..Len(squares) :
             squares[i].y = rowIndex /\ squares[i].x = columnIndex
        THEN value
        ELSE grid[rowIndex][columnIndex]]]

\* What reading grid[y][x] gives in the source: a TypeError when row y does
\* not exist (grid[y] is undefined), undefined when only the column does not.
At(grid, y, x) ==
  IF y \notin DOMAIN grid THEN "TypeError"
  ELSE IF x \notin DOMAIN grid[y] THEN "undefined"
  ELSE IF grid[y][x] THEN "true" ELSE "null"

\* checkCollision without its look at the cell below each square.
checkCollision_bottomOnly(square, grid) ==
  \E i \in 1..Len(square) : square[i].y >= GRID_HEIGHT - 1

\* checkCollision taking the row above the bottom row for the bottom.
checkCollision_offByOne(square, grid) ==
  \E i \in 1..Len(square) :
     \/ square[i].y >= GRID_HEIGHT - 2
     \/ At(grid, square[i].y + 1, square[i].x) # "null"

\* some() stops at the first square that answers true; the row read is
\* y + 1 <= GRID_HEIGHT - 1, and y >= 0 for every square the reducer builds.
checkCollision(square, grid) ==
  \E i \in 1..Len(square) :
     \/ square[i].y >= GRID_HEIGHT - 1
     \/ At(grid, square[i].y + 1, square[i].x) # "null"

EmptyGrid == [r \in Rows |-> [c \in Cols |-> FALSE]]

\* The State value the reducer threads through the action stream.
St == [gameEnd |-> gameEnd, gameState |-> gameState,
       currentSquare |-> currentSquare, score |-> score,
       nextBlock |-> nextBlock, level |-> level, highScore |-> highScore]

\* One square's term of move's every(): "true", "false", or "TypeError" when
\* it reads a row of the grid that does not exist.
canMoveSquare(s, direction, square) ==
  LET dx   == IF direction = "left" THEN -1 ELSE 1
      open == IF direction = "left" THEN square.x > 0
                                    ELSE square.x < GRID_WIDTH - 1
      cell == At(s.gameState, square.y, square.x + dx)
  IN  IF ~open THEN "false"
      ELSE IF cell = "TypeError" THEN "TypeError"
      ELSE IF cell = "true" THEN "false" ELSE "true"

\* move's canMove: every() visits the squares in order and stops at the
\* first that answers false.
RECURSIVE canMoveFrom(_, _, _)
canMoveFrom(s, direction, i) ==
  IF i > Len(s.currentSquare) THEN "true"
  ELSE LET t == canMoveSquare(s, direction, s.currentSquare[i])
       IN  IF t = "true" THEN canMoveFrom(s, direction, i + 1) ELSE t

canMove(s, direction) == canMoveFrom(s, direction, 1)

\* move throws instead of returning.
moveThrows(s, direction) ==
  ~s.gameEnd /\ canMove(s, direction) = "TypeError"

\* move, where it returns.
move(s, direction) ==
  IF s.gameEnd THEN s
  ELSE IF canMove(s, direction) = "true"
  THEN [s EXCEPT !.currentSquare =
          [i \in 1..Len(s.currentSquare) |->
             Sq(s.currentSquare[i].x + (IF direction = "left" THEN -1 ELSE 1),
                s.currentSquare[i].y)]]
  ELSE s

\* calculateDownDistance counting two rows for every row it tries.
RECURSIVE calculateDownDistance_countsTwice(_, _)
calculateDownDistance_countsTwice(s, distance) ==
  IF checkCollision(falling(s.currentSquare), s.gameState)
  THEN distance + 2
  ELSE calculateDownDistance_countsTwice(
         [s EXCEPT !.currentSquare = falling(s.currentSquare)], distance + 2)

\* calculateDownDistance stopping after the first row it tries.
calculateDownDistance_oneRow(s, distance) ==
  distance + 1

RECURSIVE calculateDownDistance(_, _)
calculateDownDistance(s, distance) ==
  IF checkCollision(falling(s.currentSquare), s.gameState)
  THEN distance + 1
  ELSE calculateDownDistance(
         [s EXCEPT !.currentSquare = falling(s.currentSquare)], distance + 1)

\* moveDown merging the dropped block into the grid.
moveDown_merges(s) ==
  IF s.gameEnd THEN s
  ELSE LET downDistance == calculateDownDistance(s, 0)
           newCurrentSquare ==
             [i \in 1..Len(s.currentSquare) |->
                Sq(s.currentSquare[i].x, s.currentSquare[i].y + downDistance)]
       IN  [s EXCEPT !.currentSquare = newCurrentSquare,
                     !.gameState =
                        updateGameState(newCurrentSquare, s.gameState, TRUE)]

\* moveDown without its gameEnd guard.
moveDown_unguarded(s) ==
  LET downDistance == calculateDownDistance(s, 0)
  IN  [s EXCEPT !.currentSquare =
         [i \in 1..Len(s.currentSquare) |->
            Sq(s.currentSquare[i].x, s.currentSquare[i].y + downDistance)]]

moveDown(s) ==
  IF s.gameEnd THEN s
  ELSE LET downDistance == calculateDownDistance(s, 0)
       IN  [s EXCEPT !.currentSquare =
              [i \in 1..Len(s.currentSquare) |->
                 Sq(s.currentSquare[i].x, s.currentSquare[i].y + downDistance)]]

\* clearLines putting the new rows under the kept rows instead of over them.
clearLines_appends(s) ==
  LET rowSeq  == [i \in 1..Cardinality(DOMAIN s.gameState) |-> s.gameState[i - 1]]
      hasNull(row) == \E c \in DOMAIN row : ~row[c]
      updatedGameState == SelectSeq(rowSeq, hasNull)
      clearedLines == Len(rowSeq) - Len(updatedGameState)
      newRow == [c \in Cols |-> FALSE]
  IN  << [s EXCEPT !.gameState =
            [r \in 0 .. (clearedLines + Len(updatedGameState) - 1) |->
               IF r < Len(updatedGameState) THEN updatedGameState[r + 1]
               ELSE newRow]],
         clearedLines >>

\* clearLines adding one new row too many.
clearLines_extraRow(s) ==
  LET rowSeq  == [i \in 1..Cardinality(DOMAIN s.gameState) |-> s.gameState[i - 1]]
      hasNull(row) == \E c \in DOMAIN row : ~row[c]
      updatedGameState == SelectSeq(rowSeq, hasNull)
      clearedLines == Len(rowSeq) - Len(updatedGameState)
      newRow == [c \in Cols |-> FALSE]
  IN  << [s EXCEPT !.gameState =
            [r \in 0 .. (2 * clearedLines + Len(updatedGameState) - 1) |->
               IF r < 2 * clearedLines THEN newRow
               ELSE updatedGameState[r - 2 * clearedLines + 1]]],
         clearedLines >>

\* clearLines: <<updated state, number of cleared lines>>.
clearLines(s) ==
  LET rowSeq  == [i \in 1..Cardinality(DOMAIN s.gameState) |-> s.gameState[i - 1]]
      hasNull(row) == \E c \in DOMAIN row : ~row[c]
      updatedGameState == SelectSeq(rowSeq, hasNull)
      clearedLines == Len(rowSeq) - Len(updatedGameState)
      newRow == [c \in Cols |-> FALSE]
  IN  << [s EXCEPT !.gameState =
            [r \in 0 .. (clearedLines + Len(updatedGameState) - 1) |->
               IF r < clearedLines THEN newRow
               ELSE updatedGameState[r - clearedLines + 1]]],
         clearedLines >>

\* checkGameEnd looking at the second row instead of the top row.
checkGameEnd_secondRow(state) ==
  \E c \in DOMAIN state.gameState[1] : state.gameState[1][c]

checkGameEnd(state) ==
  \E c \in DOMAIN state.gameState[0] : state.gameState[0][c]

\* emptyCoordinates without slice's lower end: the band starts at row 0.
emptyCoordinates_fromTop(s, clearedRowIndex) ==
  { Sq(c, r) : <<r, c>> \in
      { rc \in (DOMAIN s.gameState) \X Cols :
          /\ rc[1] < clearedRowIndex
          /\ ~s.gameState[rc[1]][rc[2]] } }

\* generateRandomSquare's candidates: the null cells of rows 5..clearedRowIndex-1.
emptyCoordinates(s, clearedRowIndex) ==
  { Sq(c, r) : <<r, c>> \in
      { rc \in (DOMAIN s.gameState) \X Cols :
          /\ rc[1] >= 5
          /\ rc[1] < clearedRowIndex
          /\ ~s.gameState[rc[1]][rc[2]] } }

\* generateRandomSquare, where the random draw picked randomCoordinate.
generateRandomSquare(s, randomCoordinate) ==
  [s EXCEPT !.gameState =
     [rowIndex \in DOMAIN s.gameState |->
        [cellIndex \in DOMAIN s.gameState[rowIndex] |->
           IF rowIndex = randomCoordinate.y /\ cellIndex = randomCoordinate.x
           THEN TRUE
           ELSE s.gameState[rowIndex][cellIndex]]]]

\* tick's reduce over the cleared lines: every state the random draws of
\* generateRandomSquare can produce, from line i on.
RECURSIVE refill(_, _, _)
refill(state, i, clearedLines) ==
  IF i >= clearedLines THEN {state}
  ELSE LET rowIndex == GRID_HEIGHT - clearedLines + i
           empty    == emptyCoordinates(state, rowIndex)
       IN  IF empty = {} THEN refill(state, i + 1, clearedLines)
           ELSE UNION { refill(generateRandomSquare(state, c), i + 1, clearedLines)
                        : c \in empty }

\* Math.min where Math.max was meant.
Max_min(a, b) == IF a <= b THEN a ELSE b

Max(a, b) == IF a >= b THEN a ELSE b

\* tick: the states it can return, generateRandomBlock's draw ranging over
\* shapeIndexes and generateRandomSquare's draws over the null cells.
tick(s, shapeIndexes) ==
  IF s.gameEnd THEN {s}
  ELSE
    LET clearedGameState == updateGameState(s.currentSquare, s.gameState, FALSE)
        hasCollisionOrAtBottom == checkCollision(s.currentSquare, clearedGameState)
        newCurrentSquare == IF hasCollisionOrAtBottom THEN s.nextBlock
                            ELSE falling(s.currentSquare)
        newNextBlocks == IF hasCollisionOrAtBottom
                         THEN {generateRandomBlock(i) : i \in shapeIndexes}
                         ELSE {s.nextBlock}
        filledGameState == IF hasCollisionOrAtBottom
                           THEN updateGameState(s.currentSquare, clearedGameState, TRUE)
                           ELSE clearedGameState
        cleared == clearLines([s EXCEPT !.gameState = filledGameState])
        updatedState == cleared[1]
        clearedLines == cleared[2]
    IN  { LET newScore == finalUpdatedState.score + clearedLines
          IN  [finalUpdatedState EXCEPT
                 !.score = newScore,
                 !.currentSquare = newCurrentSquare,
                 !.nextBlock = newNextBlock,
                 !.gameEnd = checkGameEnd(finalUpdatedState),
                 !.highScore = Max(finalUpdatedState.highScore, newScore),
                 !.level = finalUpdatedState.level + clearedLines]
          : finalUpdatedState \in refill(updatedState, 0, clearedLines),
            newNextBlock \in newNextBlocks }

Abs(n) == IF n < 0 THEN -n ELSE n

\* isSquareBlock allowing two columns and two rows from the first square.
isSquareBlock_withinTwo(s) ==
  \A i \in 1..Len(s.currentSquare) :
     /\ Abs(s.currentSquare[i].x - s.currentSquare[1].x) <= 2
     /\ Abs(s.currentSquare[i].y - s.currentSquare[1].y) <= 2

isSquareBlock(s) ==
  \A i \in 1..Len(s.currentSquare) :
     /\ Abs(s.currentSquare[i].x - s.currentSquare[1].x) <= 1
     /\ Abs(s.currentSquare[i].y - s.currentSquare[1].y) <= 1

\* rotate's newCurrentSquare turning about the second square.
rotated_aboutSecond(s, direction) ==
  LET center == s.currentSquare[2]
  IN  [i \in 1..Len(s.currentSquare) |->
         LET square == s.currentSquare[i]
         IN  Sq(IF direction = "left" THEN center.x - center.y + square.y
                                      ELSE center.x + center.y - square.y,
                IF direction = "left" THEN center.y + center.x - square.x
                                      ELSE center.y - center.x + square.x)]

\* rotate's newCurrentSquare turning to the left whatever the direction.
rotated_alwaysLeft(s, direction) ==
  LET center == s.currentSquare[1]
  IN  [i \in 1..Len(s.currentSquare) |->
         LET square == s.currentSquare[i]
         IN  Sq(center.x - center.y + square.y,
                center.y + center.x - square.x)]

\* rotate's newCurrentSquare without the pivot's x in the new y.
rotated_noPivotX(s, direction) ==
  LET center == s.currentSquare[1]
  IN  [i \in 1..Len(s.currentSquare) |->
         LET square == s.currentSquare[i]
         IN  Sq(IF direction = "left" THEN center.x - center.y + square.y
                                      ELSE center.x + center.y - square.y,
                IF direction = "left" THEN center.y - square.x
                                      ELSE center.y + square.x)]

\* rotate's newCurrentSquare.
rotated(s, direction) ==
  LET center == s.currentSquare[1]
  IN  [i \in 1..Len(s.currentSquare) |->
         LET square == s.currentSquare[i]
         IN  Sq(IF direction = "left" THEN center.x - center.y + square.y
                                      ELSE center.x + center.y - square.y,
                IF direction = "left" THEN center.y + center.x - square.x
                                      ELSE center.y - center.x + square.x)]

\* rotate's isValid; && reads the grid only after the four range tests.
isValid(s, newCurrentSquare) ==
  \A i \in 1..Len(newCurrentSquare) :
     /\ newCurrentSquare[i].x >= 0
     /\ newCurrentSquare[i].x < GRID_WIDTH
     /\ newCurrentSquare[i].y >= 0
     /\ newCurrentSquare[i].y < GRID_HEIGHT
     /\ At(s.gameState, newCurrentSquare[i].y, newCurrentSquare[i].x)
          \in {"null", "undefined"}

\* rotate without its isValid test.
rotate_unchecked(s, direction) ==
  IF s.gameEnd THEN s
  ELSE IF isSquareBlock(s) THEN s
  ELSE [s EXCEPT !.currentSquare = rotated(s, direction)]

rotate(s, direction) ==
  IF s.gameEnd THEN s
  ELSE IF isSquareBlock(s) THEN s
  ELSE IF isValid(s, rotated(s, direction))
  THEN [s EXCEPT !.currentSquare = rotated(s, direction)]
  ELSE s

\* restartGame leaving level as it is.
restartGame_keepsLevel(state, shapeIndex, nextShapeIndex) ==
  [state EXCEPT !.gameEnd = FALSE,
                !.gameState = EmptyGrid,
                !.currentSquare = generateRandomBlock(shapeIndex),
                !.score = 0,
                !.nextBlock = generateRandomBlock(nextShapeIndex)]

\* restartGame starting the high score over as well.
restartGame_resetsHighScore(state, shapeIndex, nextShapeIndex) ==
  [state EXCEPT !.gameEnd = FALSE,
                !.gameState = EmptyGrid,
                !.currentSquare = generateRandomBlock(shapeIndex),
                !.score = 0,
                !.nextBlock = generateRandomBlock(nextShapeIndex),
                !.level = 0,
                !.highScore = 0]

\* restartGame leaving gameEnd as it is.
restartGame_keepsGameEnd(state, shapeIndex, nextShapeIndex) ==
  [state EXCEPT !.gameState = EmptyGrid,
                !.currentSquare = generateRandomBlock(shapeIndex),
                !.score = 0,
                !.nextBlock = generateRandomBlock(nextShapeIndex),
                !.level = 0]

\* restartGame keeping the grid of the game it restarts.
restartGame_keepsGrid(state, shapeIndex, nextShapeIndex) ==
  [state EXCEPT !.gameEnd = FALSE,
                !.currentSquare = generateRandomBlock(shapeIndex),
                !.score = 0,
                !.nextBlock = generateRandomBlock(nextShapeIndex),
                !.level = 0]

\* restartGame, with the two draws of generateRandomBlock.
restartGame(state, shapeIndex, nextShapeIndex) ==
  [state EXCEPT !.gameEnd = FALSE,
                !.gameState = EmptyGrid,
                !.currentSquare = generateRandomBlock(shapeIndex),
                !.score = 0,
                !.nextBlock = generateRandomBlock(nextShapeIndex),
                !.level = 0]

initialState(shapeIndex, nextShapeIndex) ==
  [gameEnd |-> FALSE, gameState |-> EmptyGrid,
   currentSquare |-> generateRandomBlock(shapeIndex), score |-> 0,
   nextBlock |-> generateRandomBlock(nextShapeIndex), level |-> 0,
   highScore |-> 0]

(***************************************************************************)
(* Start states.  The session starts in initialState; the other start      *)
(* states are states of longer sessions, each computed by folding the      *)
(* reducer over an action stream from initialState, as scan does.          *)
(***************************************************************************)
Act(op, shapeIndex) == [op |-> op, shapeIndex |-> shapeIndex]

\* One step of scan((s, action) => action(s)) for a stream that clears no
\* line and throws nothing.
reduce(s, act) ==
  CASE act.op = "tick"  -> CHOOSE t \in tick(s, {act.shapeIndex}) : TRUE
    [] act.op = "left"  -> move(s, "left")
    [] act.op = "right" -> move(s, "right")
    [] act.op = "down"  -> moveDown(s)

RECURSIVE scan(_, _)
scan(s, stream) ==
  IF stream = <<>> THEN s
  ELSE scan(reduce(s, Head(stream)), Tail(stream))

RECURSIVE Repeat(_, _)
Repeat(stream, n) == IF n = 0 THEN <<>> ELSE stream \o Repeat(stream, n - 1)

\* The O shape's index in shapes.
ShapeO == 3

\* Nine O blocks, each moved `shift` columns to the right, dropped and
\* settled by a tick: a tower two columns wide over rows 2..19.  The last two
\* blocks drawn, cur and next, are the current and next block afterwards.
TowerStream(shift, cur, next) ==
  LET place(shapeIndex) ==
        Repeat(<<Act("right", 0)>>, shift)
          \o <<Act("down", 0), Act("tick", shapeIndex)>>
  IN  Repeat(place(ShapeO), 7) \o place(cur) \o place(next)

Tower(shift, cur, next) ==
  scan(initialState(ShapeO, ShapeO), TowerStream(shift, cur, next))

\* The first block has fallen 17 rows: ticks alone, nothing in its way.
Fallen(cur, next) ==
  scan(initialState(cur, next), Repeat(<<Act("tick", 0)>>, 17))

\* The I shape's index in shapes.
ShapeI == 0

\* Two I blocks lie in the bottom row over columns 0..7; the O block that
\* follows has been moved three columns to the right, one column short of
\* the gap it would close.
Ledge(next) ==
  scan(initialState(ShapeI, ShapeI),
       Repeat(<<Act("left", 0)>>, 4)
         \o <<Act("down", 0), Act("tick", ShapeO),
              Act("down", 0), Act("tick", next)>>
         \o Repeat(<<Act("right", 0)>>, 3))

\* The L shape's index in shapes.
ShapeL == 2

\* Five I blocks and an L block lie in rows 17..19: row 18 is Filled in
\* columns 0..7, row 17 in columns 1..7 and row 19 in columns 2..9.  The O
\* block that follows has been moved over columns 8 and 9, where it will
\* land on rows 17 and 18 and complete row 18.
Brink(next) ==
  LET place(moves, shapeIndex) ==
        moves \o <<Act("down", 0), Act("tick", shapeIndex)>>
  IN  scan(initialState(ShapeI, ShapeI),
           place(Repeat(<<Act("left", 0)>>, 2), ShapeI)
             \o place(Repeat(<<Act("right", 0)>>, 2), ShapeI)
             \o place(Repeat(<<Act("left", 0)>>, 4), ShapeI)
             \o place(<<>>, ShapeL)
             \o place(Repeat(<<Act("left", 0)>>, 3), ShapeO)
             \o place(<<Act("right", 0)>>, next)
             \o Repeat(<<Act("right", 0)>>, 4))

StartStates ==
  { initialState(a, b) : a \in ShapeIndexes, b \in ShapeIndexes }
  \cup { Fallen(a, b) : a \in ShapeIndexes, b \in ShapeIndexes }
  \cup { Tower(0, a, b) : a \in ShapeIndexes, b \in ShapeIndexes }
  \cup { Tower(2, a, b) : a \in ShapeIndexes, b \in ShapeIndexes }
  \cup { Ledge(b) : b \in ShapeIndexes }
  \cup { Brink(ShapeO) }

\* The reducer returned state s.
Returns(s) ==
  /\ gameEnd' = s.gameEnd
  /\ gameState' = s.gameState
  /\ currentSquare' = s.currentSquare
  /\ score' = s.score
  /\ nextBlock' = s.nextBlock
  /\ level' = s.level
  /\ highScore' = s.highScore
  /\ threw' = threw

\* The reducer threw: scan errors, the subscription ends and no further
\* action is ever applied.
Throws ==
  /\ threw' = TRUE
  /\ UNCHANGED stateVars

\* Action `action` of the merged stream is consumed.
Consume(action) ==
  /\ ~threw
  /\ steps < MaxSteps
  /\ steps' = steps + 1
  /\ last' = action

Init ==
  /\ \E s \in StartStates :
       /\ gameEnd = s.gameEnd
       /\ gameState = s.gameState
       /\ currentSquare = s.currentSquare
       /\ score = s.score
       /\ nextBlock = s.nextBlock
       /\ level = s.level
       /\ highScore = s.highScore
  /\ threw = FALSE
  /\ last = "none"
  /\ steps = 0

Tick ==
  /\ Consume("tick")
  /\ \E t \in tick(St, ShapeIndexes) : Returns(t)

Move(direction) ==
  /\ Consume(direction)
  /\ IF moveThrows(St, direction) THEN Throws
     ELSE Returns(move(St, direction))

MoveLeft == Move("left")

MoveRight == Move("right")

Down ==
  /\ Consume("down")
  /\ Returns(moveDown(St))

RotateLeft ==
  /\ Consume("rotateLeft")
  /\ Returns(rotate(St, "left"))

RotateRight ==
  /\ Consume("rotateRight")
  /\ Returns(rotate(St, "right"))

Restart ==
  /\ Consume("restart")
  /\ \E a \in ShapeIndexes, b \in ShapeIndexes :
       Returns(restartGame(St, a, b))

Next ==
  \/ Tick
  \/ MoveLeft
  \/ MoveRight
  \/ Down
  \/ RotateLeft
  \/ RotateRight
  \/ Restart

Spec == Init /\ [][Next]_vars

(***************************************************************************)
(* clearLines on its own: the grids it is handed and a step that applies   *)
(* it.  Row r of a sample grid carries the binary digits of r + 1 in its   *)
(* first five columns, so that every row is recognisable, not Empty and    *)
(* not full; up to two rows are then made full.  The all-Filled and the    *)
(* all-Empty grid are added.                                               *)
(***************************************************************************)
SampleRow(r) ==
  [c \in Cols |-> c < 5 /\ ((r + 1) \div (2 ^ c)) % 2 = 1]

SampleGrid(full) ==
  [r \in Rows |-> IF r \in full THEN [c \in Cols |-> TRUE] ELSE SampleRow(r)]

SampleGrids ==
  { SampleGrid(full) : full \in { f \in SUBSET Rows : Cardinality(f) <= 2 } }
    \cup { SampleGrid(Rows), EmptyGrid }

InitClearLines ==
  /\ gameState \in SampleGrids
  /\ gameEnd = FALSE
  /\ currentSquare = generateRandomBlock(ShapeO)
  /\ score = 0
  /\ nextBlock = generateRandomBlock(ShapeO)
  /\ level = 0
  /\ highScore = 0
  /\ threw = FALSE
  /\ last = "none"
  /\ steps = 0

\* clearLines applied to the state; the count it returns is dropped.
ClearLines ==
  /\ Consume("clearLines")
  /\ Returns(clearLines(St)[1])

NextClearLines == ClearLines

SpecClearLines == InitClearLines /\ [][NextClearLines]_vars

(***************************************************************************)
(* The timer alone: from initialState with the O block drawn first, the    *)
(* stream carries tick$ and no key.  interval() goes on emitting, so a     *)
(* tick that can be taken is taken.                                        *)
(***************************************************************************)
MaxTicks == 20

InitTicks ==
  /\ \E b \in ShapeIndexes :
       LET s == initialState(ShapeO, b)
       IN  /\ gameEnd = s.gameEnd
           /\ gameState = s.gameState
           /\ currentSquare = s.currentSquare
           /\ score = s.score
           /\ nextBlock = s.nextBlock
           /\ level = s.level
           /\ highScore = s.highScore
  /\ threw = FALSE
  /\ last = "none"
  /\ steps = 0

TickAlone ==
  /\ steps < MaxTicks
  /\ steps' = steps + 1
  /\ last' = "tick"
  /\ \E t \in tick(St, ShapeIndexes) : Returns(t)

NextTicks == TickAlone

SpecTicks == InitTicks /\ [][NextTicks]_vars /\ WF_vars(TickAlone)

(***************************************************************************)
(* tick's refill on its own: the reduce over the cleared lines, one call   *)
(* of generateRandomSquare per step, for ClearedLines cleared lines.  The  *)
(* grids it is handed have rows 0..4 Empty and the rows below Filled but   *)
(* for some of the cells of Gaps, so that the band of a call can be        *)
(* without a null cell, and null cells lie above and below every band.     *)
(***************************************************************************)
ClearedLines == 4

Gaps == { Sq(0, 5), Sq(9, 12), Sq(3, 16), Sq(4, 17), Sq(5, 18), Sq(6, 19) }

GapGrid(gaps) ==
  [r \in Rows |-> [c \in Cols |-> r >= 5 /\ Sq(c, r) \notin gaps]]

InitRefill ==
  /\ gameState \in { GapGrid(gaps) : gaps \in SUBSET Gaps }
  /\ gameEnd = FALSE
  /\ currentSquare = generateRandomBlock(ShapeO)
  /\ score = 0
  /\ nextBlock = generateRandomBlock(ShapeO)
  /\ level = 0
  /\ highScore = 0
  /\ threw = FALSE
  /\ last = "none"
  /\ steps = 0

\* Step `steps` of the reduce: generateRandomSquare(state, rowIndex), its
\* random draw ranging over emptyCoordinates.
RefillStep ==
  /\ steps < ClearedLines
  /\ steps' = steps + 1
  /\ last' = "generateRandomSquare"
  /\ LET rowIndex == GRID_HEIGHT - ClearedLines + steps
         empty    == emptyCoordinates(St, rowIndex)
     IN  IF empty = {} THEN Returns(St)
         ELSE \E c \in empty : Returns(generateRandomSquare(St, c))

NextRefill == RefillStep

SpecRefill == InitRefill /\ [][NextRefill]_vars

(***************************************************************************)
(* rotate's transform on its own, without isSquareBlock and isValid: each  *)
(* of the seven shapes, its pivot at one of nine places in and at the edge *)
(* of the grid, is turned up to four times in one direction.               *)
(***************************************************************************)
TurnStarts ==
  { [i \in 1..4 |-> Sq(generateRandomBlock(shapeIndex)[i].x + dx,
                       generateRandomBlock(shapeIndex)[i].y + dy)] :
      shapeIndex \in ShapeIndexes, dx \in {-4, 0, 3}, dy \in {0, 9, 18} }

InitTurns ==
  /\ currentSquare \in TurnStarts
  /\ gameEnd = FALSE
  /\ gameState = EmptyGrid
  /\ score = 0
  /\ nextBlock = generateRandomBlock(ShapeO)
  /\ level = 0
  /\ highScore = 0
  /\ threw = FALSE
  /\ last = "none"
  /\ steps = 0

Turn(direction, action) ==
  /\ steps < 4
  /\ last \in {"none", action}
  /\ steps' = steps + 1
  /\ last' = action
  /\ Returns([St EXCEPT !.currentSquare = rotated(St, direction)])

TurnLeft == Turn("left", "rotateLeft")

TurnRight == Turn("right", "rotateRight")

NextTurns ==
  \/ TurnLeft
  \/ TurnRight

SpecTurns == InitTurns /\ [][NextTurns]_vars

(***************************************************************************)
(* Vocabulary of the properties.                                           *)
(***************************************************************************)
\* The block shifted by (dx, dy).
Shift(block, dx, dy) ==
  [i \in DOMAIN block |-> Sq(block[i].x + dx, block[i].y + dy)]

\* Cell (x, y) is a Filled cell of the grid.
Filled(grid, x, y) ==
  /\ y \in DOMAIN grid
  /\ x \in DOMAIN grid[y]
  /\ grid[y][x]

\* Every square of the block is inside the grid.
InBounds(block) ==
  \A i \in DOMAIN block : block[i].x \in Cols /\ block[i].y \in Rows

\* Every square of the block is inside the grid and over an Empty cell.
Free(block, grid) ==
  /\ InBounds(block)
  /\ \A i \in DOMAIN block : ~Filled(grid, block[i].x, block[i].y)

SpawnBlocks == { generateRandomBlock(i) : i \in ShapeIndexes }

\* C1: in every Running state every square of the current block has
\* 0 <= x < GRID_WIDTH and 0 <= y < GRID_HEIGHT.
C1_PieceInBounds ==
  ~gameEnd => InBounds(currentSquare)

\* C2: in every Running state no square of the current block lies on a
\* Filled cell of the grid.
C2_NoOverlap ==
  ~gameEnd =>
    \A i \in DOMAIN currentSquare :
       ~Filled(gameState, currentSquare[i].x, currentSquare[i].y)

\* C3: no sequence of actions makes the reducer throw: it never reads a row
\* of the grid that does not exist.
C3_NoRuntimeError ==
  ~threw

\* C4: a hard drop in a Running state moves the block straight down by the
\* largest d >= 0 such that the block is in bounds and over Empty cells at
\* every distance 0..d, and is not so at distance d + 1.
C4_HardDropMaximal ==
  [][ (Down /\ ~gameEnd) =>
        \E d \in 0 .. GRID_HEIGHT :
           /\ currentSquare' = Shift(currentSquare, 0, d)
           /\ \A k \in 0 .. d : Free(Shift(currentSquare, 0, k), gameState)
           /\ ~Free(Shift(currentSquare, 0, d + 1), gameState) ]_vars

\* C5: in an Ended state every action but restart returns the state it was
\* given, identical in every field, and throws nothing.
C5_EndedFrozen ==
  [][ gameEnd => (UNCHANGED <<stateVars, threw>> \/ last' = "restart") ]_vars

\* C5 witness: a hard drop was applied to an Ended state.
C5_Witness ==
  gameEnd /\ last = "down"

\* The block rests where it is: a square is on or below the bottom row, or
\* the cell right below a square is Filled and is not a square of the block.
Rests(block, grid) ==
  \E i \in DOMAIN block :
     \/ block[i].y >= GRID_HEIGHT - 1
     \/ /\ Filled(grid, block[i].x, block[i].y + 1)
        /\ \A j \in DOMAIN block :
              ~(block[j].x = block[i].x /\ block[j].y = block[i].y + 1)

\* The grid with the block's squares Filled.
Merged(block, grid) ==
  [r \in DOMAIN grid |->
     [c \in DOMAIN grid[r] |->
        grid[r][c] \/ \E i \in DOMAIN block : block[i].x = c /\ block[i].y = r]]

HasFullRow(grid) ==
  \E r \in DOMAIN grid : \A c \in DOMAIN grid[r] : grid[r][c]

\* C6 as stated: on a tick in a Running state the block moves down one row
\* exactly when checkCollision of the block translated down by one row is
\* false against the grid.
C6_FallsIffTranslatedFree ==
  [][ (last' = "tick" /\ ~gameEnd) =>
        ( currentSquare' = Shift(currentSquare, 0, 1)
            <=> ~checkCollision(falling(currentSquare), gameState) ) ]_vars

\* C6 amended: on a tick in a Running state the block moves down one row
\* exactly when the block, where it is, does not rest (no square on or below
\* the bottom row, no Filled cell other than its own right below a square);
\* otherwise the next block replaces it and its squares are merged into the
\* grid at its current position.
C6_FallsIffNotResting ==
  [][ (last' = "tick" /\ ~gameEnd) =>
        IF Rests(currentSquare, gameState)
        THEN /\ currentSquare' = nextBlock
             /\ currentSquare' # Shift(currentSquare, 0, 1)
             /\ \/ gameState' = Merged(currentSquare, gameState)
                \/ HasFullRow(Merged(currentSquare, gameState))
        ELSE currentSquare' = Shift(currentSquare, 0, 1) ]_vars

\* C6 witness: a tick let the I block fall from row 0 to row 1, onto the
\* tower whose top is row 2 (the translated block would collide there).
C6_Witness ==
  /\ last = "tick"
  /\ steps = 1
  /\ currentSquare = <<Sq(4, 1), Sq(5, 1), Sq(6, 1), Sq(7, 1)>>
  /\ Filled(gameState, 4, 2)

\* C7: a tick in a Running state whose block is at its spawn position and
\* lies on a Filled cell ends the game.
C7_SpawnOverlapEnds ==
  [][ ( /\ last' = "tick"
        /\ ~gameEnd
        /\ currentSquare \in SpawnBlocks
        /\ \E i \in DOMAIN currentSquare :
              Filled(gameState, currentSquare[i].x, currentSquare[i].y) )
      => gameEnd' ]_vars

\* C8: a tick in a Running state that does not settle the block, on a grid
\* with no full row, leaves every cell of the grid as it was.
C8_FallingTickKeepsGrid ==
  [][ ( /\ last' = "tick"
        /\ ~gameEnd
        /\ ~HasFullRow(gameState)
        /\ currentSquare' = Shift(currentSquare, 0, 1) )
      => gameState' = gameState ]_vars

\* C9: in a Running state a move shifts the block by one column exactly when
\* every shifted square is inside the grid and over an Empty cell; otherwise
\* it returns the state it was given.
C9_MoveIffFree ==
  [][ \A direction \in {"left", "right"} :
        (Move(direction) /\ ~gameEnd) =>
           LET dx == IF direction = "left" THEN -1 ELSE 1
           IN  IF Free(Shift(currentSquare, dx, 0), gameState)
               THEN /\ currentSquare' = Shift(currentSquare, dx, 0)
                    /\ UNCHANGED <<gameEnd, gameState, score, nextBlock,
                                   level, highScore, threw>>
               ELSE UNCHANGED <<stateVars, threw>> ]_vars

\* The rotation of the claim: about the first square (px, py), left maps
\* (sx, sy) to (px - py + sy, py + px - sx) and right maps it to
\* (px + py - sy, py - px + sx).
Turned(block, direction) ==
  LET px == block[1].x
      py == block[1].y
  IN  [i \in DOMAIN block |->
         IF direction = "left"
         THEN Sq(px - py + block[i].y, py + px - block[i].x)
         ELSE Sq(px + py - block[i].y, py - px + block[i].x)]

RotateAction(direction) ==
  IF direction = "left" THEN RotateLeft ELSE RotateRight

\* C10: in a Running state rotate either replaces the block by its rotation,
\* and then all 4 rotated squares are in bounds and over Empty cells, or
\* returns the state unchanged; the first square never moves.
C10_RotateValidOrNoop ==
  [][ \A direction \in {"left", "right"} :
        (RotateAction(direction) /\ ~gameEnd) =>
           /\ \/ /\ currentSquare' = Turned(currentSquare, direction)
                 /\ Free(Turned(currentSquare, direction), gameState)
              \/ currentSquare' = currentSquare
           /\ currentSquare'[1] = currentSquare[1]
           /\ UNCHANGED <<gameEnd, gameState, score, nextBlock, level,
                          highScore, threw>> ]_vars

\* C10 witness: rotate right stood the I block up from its spawn position.
C10_Witness ==
  /\ ~gameEnd
  /\ last = "rotateRight"
  /\ currentSquare = <<Sq(4, 0), Sq(4, 1), Sq(4, 2), Sq(4, 3)>>

\* The seven catalog shapes at their spawn positions on the 10 x 20 grid.
CatalogSpawn ==
  { <<Sq(4, 0), Sq(5, 0), Sq(6, 0), Sq(7, 0)>>,
    <<Sq(4, 0), Sq(4, 1), Sq(5, 1), Sq(6, 1)>>,
    <<Sq(4, 1), Sq(5, 1), Sq(6, 1), Sq(6, 0)>>,
    <<Sq(4, 0), Sq(4, 1), Sq(5, 0), Sq(5, 1)>>,
    <<Sq(4, 1), Sq(5, 1), Sq(5, 0), Sq(6, 0)>>,
    <<Sq(4, 1), Sq(5, 0), Sq(5, 1), Sq(6, 1)>>,
    <<Sq(4, 0), Sq(5, 0), Sq(5, 1), Sq(6, 1)>> }

\* Some cell of row 0 is Filled.
TopRowFilled(grid) ==
  \E c \in Cols : Filled(grid, c, 0)

\* C11: after a tick, gameEnd is true exactly when some cell of row 0 of the
\* resulting grid is Filled.
C11_EndIffTopRowFilled ==
  last = "tick" => (gameEnd <=> TopRowFilled(gameState))

\* C11 witness: a tick merged a block into row 0 and ended the game.
C11_Witness ==
  /\ last = "tick"
  /\ gameEnd
  /\ TopRowFilled(gameState)

\* C12: gameEnd turns from false to true only on a tick on which the current
\* block settles (it rests, and the next block replaces it).
C12_EndOnlyOnSettle ==
  [][ (~gameEnd /\ gameEnd') =>
        /\ last' = "tick"
        /\ Rests(currentSquare, gameState)
        /\ currentSquare' = nextBlock ]_vars

\* C12 witness: the first action of the stream, a tick, settled the block
\* on top of the tower and ended the game.
C12_Witness ==
  /\ gameEnd
  /\ last = "tick"
  /\ steps = 1
  /\ currentSquare \in CatalogSpawn

\* A state as a game starts it: Running, the grid all Empty and of full
\* size, score and level 0, both blocks catalog shapes at spawn.
Fresh(s) ==
  /\ s.gameEnd = FALSE
  /\ DOMAIN s.gameState = Rows
  /\ \A r \in Rows :
        /\ DOMAIN s.gameState[r] = Cols
        /\ \A c \in Cols : s.gameState[r][c] = FALSE
  /\ s.score = 0
  /\ s.level = 0
  /\ s.currentSquare \in CatalogSpawn
  /\ s.nextBlock \in CatalogSpawn

\* initialState is fresh whichever two blocks are drawn.
InitialStatesFresh ==
  \A a \in ShapeIndexes, b \in ShapeIndexes : Fresh(initialState(a, b))

\* C13: initialState, for every draw of the two blocks, and the state after
\* restart from any state, Running or Ended, is a fresh state.
C13_InitialAndRestartFresh ==
  /\ InitialStatesFresh
  /\ last = "restart" => Fresh(St)

\* C13 witness: restart, the second action of the stream, left a fresh
\* state behind.
C13_Witness ==
  /\ last = "restart"
  /\ steps = 2
  /\ Fresh(St)

\* The number of full rows of the grid.
FullRows(grid) ==
  Cardinality({ r \in DOMAIN grid : \A c \in DOMAIN grid[r] : grid[r][c] })

\* The grid with the block's squares Empty.
Lifted(block, grid) ==
  [r \in DOMAIN grid |->
     [c \in DOMAIN grid[r] |->
        grid[r][c] /\ ~\E i \in DOMAIN block : block[i].x = c /\ block[i].y = r]]

\* The rows a tick clears: the full rows of the grid once the block is
\* merged (when it rests) or lifted off it (when it falls).
ClearedCount ==
  IF Rests(currentSquare, gameState)
  THEN FullRows(Merged(currentSquare, gameState))
  ELSE FullRows(Lifted(currentSquare, gameState))

\* C14: a tick in a Running state that clears clearedCount rows adds
\* clearedCount to score and to level and sets highScore to the larger of
\* highScore and the new score; only tick and restart change any of them.
C14_ScoreLevelHighScore ==
  [][ /\ (last' = "tick" /\ ~gameEnd) =>
            /\ score' = score + ClearedCount
            /\ level' = level + ClearedCount
            /\ highScore' = (IF highScore >= score' THEN highScore ELSE score')
      /\ (last' \notin {"tick", "restart"}) =>
            UNCHANGED <<score, level, highScore>> ]_vars

\* C14 witness: a tick cleared one row and the score went from 0 to 1.
C14_Witness ==
  /\ last = "tick"
  /\ score = 1
  /\ level = 1
  /\ highScore = 1

\* The rows of the grid that are not full.
KeptRows(grid) ==
  { r \in DOMAIN grid : \E c \in DOMAIN grid[r] : ~grid[r][c] }

\* The grid clearLines is to return: as many Empty rows on top as the grid
\* has full rows, and under them the rows that are not full, in their order.
Cleared(grid) ==
  LET count == Cardinality(DOMAIN grid) - Cardinality(KeptRows(grid))
  IN  [r \in DOMAIN grid |->
         IF r < count THEN [c \in Cols |-> FALSE]
         ELSE grid[CHOOSE j \in KeptRows(grid) :
                     Cardinality({ i \in KeptRows(grid) : i < j }) = r - count]]

\* C15: clearLines removes exactly the full rows, keeps the others in their
\* order, puts as many Empty rows on top and returns the number of removed
\* rows; an all-Filled grid gives GRID_HEIGHT and an all-Empty grid, a grid
\* without a full row gives 0 and the same grid.
C15_ClearLines ==
  /\ clearLines(St)[1] = [St EXCEPT !.gameState = Cleared(gameState)]
  /\ clearLines(St)[2] = FullRows(gameState)
  /\ (\A r \in Rows : \A c \in Cols : gameState[r][c]) =>
        /\ clearLines(St)[2] = GRID_HEIGHT
        /\ clearLines(St)[1].gameState = EmptyGrid
  /\ FullRows(gameState) = 0 =>
        /\ clearLines(St)[2] = 0
        /\ clearLines(St)[1].gameState = gameState

\* C15 witness: clearLines took two full rows out of a sample grid: the two
\* top rows are Empty and the rows that were on top follow them.
C15_Witness ==
  /\ last = "clearLines"
  /\ steps = 1
  /\ \A c \in Cols : ~gameState[0][c] /\ ~gameState[1][c]
  /\ gameState[2] = SampleRow(0)
  /\ gameState[3] = SampleRow(1)
  /\ gameState[GRID_HEIGHT - 1] = SampleRow(GRID_HEIGHT - 1)

\* C16: the grid has exactly GRID_HEIGHT rows of GRID_WIDTH cells each.
C16_GridDimensions ==
  /\ DOMAIN gameState = 0 .. (GRID_HEIGHT - 1)
  /\ \A r \in DOMAIN gameState : DOMAIN gameState[r] = 0 .. (GRID_WIDTH - 1)

\* C16 witness: a tick cleared the bottom row and the grid kept its size,
\* with what the refill put there in a new bottom row.
C16_Witness ==
  /\ last = "tick"
  /\ score = 1
  /\ Cardinality(DOMAIN gameState) = GRID_HEIGHT
  /\ \A r \in DOMAIN gameState : Cardinality(DOMAIN gameState[r]) = GRID_WIDTH
  /\ FullRows(gameState) = 0

\* C17: a tick on which the block settles makes the next block the current
\* block and draws a catalog shape at spawn as next block; a tick on which
\* it does not settle, a move, a rotation and a drop leave the next block.
C17_NextBlockPromoted ==
  [][ /\ (last' = "tick" /\ ~gameEnd /\ Rests(currentSquare, gameState)) =>
            /\ currentSquare' = nextBlock
            /\ nextBlock' \in CatalogSpawn
      /\ (last' = "tick" /\ ~(~gameEnd /\ Rests(currentSquare, gameState))) =>
            nextBlock' = nextBlock
      /\ (last' \in {"left", "right", "down", "rotateLeft", "rotateRight"}) =>
            nextBlock' = nextBlock ]_vars

\* C17 witness: a tick settled a block on the bottom row, the game goes on
\* with a block at spawn, and the next block is another shape than that.
C17_Witness ==
  /\ last = "tick"
  /\ ~gameEnd
  /\ \E c \in Cols : Filled(gameState, c, GRID_HEIGHT - 1)
  /\ currentSquare \in CatalogSpawn
  /\ nextBlock \in CatalogSpawn
  /\ nextBlock # currentSquare

Collides(block, grid) ==
  \E i \in DOMAIN block :
     \/ block[i].y >= GRID_HEIGHT - 1
     \/ Filled(grid, block[i].x, block[i].y + 1)

LandedO == <<Sq(4, GRID_HEIGHT - 2), Sq(4, GRID_HEIGHT - 1),
             Sq(5, GRID_HEIGHT - 2), Sq(5, GRID_HEIGHT - 1)>>

\* The O block has settled on the two bottom rows: its four cells are the
\* Filled cells of the grid, the score is 0 and the game goes on.
OSettled ==
  /\ gameState = Merged(LandedO, EmptyGrid)
  /\ score = 0
  /\ ~gameEnd

\* C19: from an Empty grid with the O block at spawn, ticks alone bring the
\* block to settle on rows GRID_HEIGHT-2 and GRID_HEIGHT-1; right after the
\* settling tick the score is 0, the game is not ended and the Filled cells
\* are the block's four cells.
C19_OSettlesAtBottom ==
  /\ <>OSettled
  /\ [][ (gameState = EmptyGrid /\ gameState' # EmptyGrid) => OSettled' ]_vars

\* C19 witness: the nineteenth tick settled the O block.
C19_Witness ==
  /\ steps = GRID_HEIGHT - 1
  /\ last = "tick"
  /\ OSettled
  /\ currentSquare \in CatalogSpawn

\* The blocks C20 looks at in a state: the current block and the block one
\* row or one column away from it.
Nearby ==
  { Shift(currentSquare, dx, dy) : dx \in {-1, 0, 1}, dy \in {-1, 0, 1} }

\* C20: for a block inside the grid, checkCollision is true exactly when a
\* square of it has y >= GRID_HEIGHT - 1 or the cell right below a square of
\* it is Filled.
C20_CheckCollision ==
  \A block \in Nearby :
     InBounds(block) =>
       (checkCollision(block, gameState) <=> Collides(block, gameState))

\* C20 witness: the down key put a block, inside the grid and above the
\* bottom row, on a Filled cell, and checkCollision says so.
C20_Witness ==
  /\ last = "down"
  /\ InBounds(currentSquare)
  /\ \A i \in DOMAIN currentSquare : currentSquare[i].y < GRID_HEIGHT - 1
  /\ \E i \in DOMAIN currentSquare :
        Filled(gameState, currentSquare[i].x, currentSquare[i].y + 1)
  /\ checkCollision(currentSquare, gameState)

\* The cells in which the two grids differ.
Changed(before, after) ==
  { Sq(c, r) : <<r, c>> \in
      { rc \in Rows \X Cols : before[rc[1]][rc[2]] # after[rc[1]][rc[2]] } }

\* The band [5, clearedRowIndex) of the grid has an Empty cell.
BandHasEmpty(grid, clearedRowIndex) ==
  \E r \in Rows, c \in Cols :
     5 <= r /\ r < clearedRowIndex /\ ~Filled(grid, c, r)

\* C21: the refill marks at most one cell for a cleared row; the cell was
\* Empty and lies in a row r with 5 <= r < clearedRowIndex, so never in rows
\* 0..4; when the band has no Empty cell the grid is left as it is.  The
\* refill changes no other field.
C21_DebrisInBand ==
  [][ last' = "generateRandomSquare" =>
        LET clearedRowIndex == GRID_HEIGHT - ClearedLines + steps
            debris == Changed(gameState, gameState')
        IN  /\ Cardinality(debris) <= 1
            /\ \A d \in debris :
                  /\ ~Filled(gameState, d.x, d.y)
                  /\ Filled(gameState', d.x, d.y)
                  /\ 5 <= d.y
                  /\ d.y < clearedRowIndex
            /\ ~BandHasEmpty(gameState, clearedRowIndex) => debris = {}
            /\ UNCHANGED <<gameEnd, currentSquare, score, nextBlock, level,
                           highScore, threw>> ]_vars

\* C21 witness: the refill has run for every cleared line; the gap of row
\* 5 got its debris cell, and the gaps of the bottom row and of rows 0..4
\* are Empty as before.
C21_Witness ==
  /\ last = "generateRandomSquare"
  /\ steps = ClearedLines
  /\ Filled(gameState, 0, 5)
  /\ ~Filled(gameState, 6, GRID_HEIGHT - 1)
  /\ \A r \in 0 .. 4 : \A c \in Cols : ~Filled(gameState, c, r)

\* C22 as stated: the blocks a run generates are determined by the state and
\* the action sequence: no tick has two outcomes with different next blocks.
C22_DrawsDetermined ==
  [][ (last' = "tick" /\ ~gameEnd /\ Rests(currentSquare, gameState)) =>
        \A t \in tick(St, ShapeIndexes) : t.nextBlock = nextBlock' ]_vars

\* The state with its block put through rotate's transform n times.
RECURSIVE TurnedTimes(_, _, _)
TurnedTimes(s, direction, n) ==
  IF n = 0 THEN s
  ELSE TurnedTimes([s EXCEPT !.currentSquare = rotated(s, direction)],
                   direction, n - 1)

\* C23: rotate's transform applied four times in one direction, isValid and
\* isSquareBlock left out, gives back the block, square by square: for the
\* seven shapes in each orientation and at each pivot position.
C23_FourTurnsIdentity ==
  /\ \A direction \in {"left", "right"} :
        TurnedTimes(St, direction, 4).currentSquare = currentSquare
  /\ steps = 4 => currentSquare \in TurnStarts

\* C23 witness: four turns to the left have brought the I block, its pivot
\* on the bottom row, back to where it lay.
C23_Witness ==
  /\ steps = 4
  /\ last = "rotateLeft"
  /\ currentSquare = <<Sq(4, 18), Sq(5, 18), Sq(6, 18), Sq(7, 18)>>

\* C24: in a Running state in which the block is free to move one column
\* to the left, left followed by right gives back the state, and likewise
\* right followed by left.
C24_LeftRightRoundTrip ==
  \A pair \in {<<"left", "right", -1>>, <<"right", "left", 1>>} :
     (~gameEnd /\ Free(Shift(currentSquare, pair[3], 0), gameState)) =>
        /\ ~moveThrows(St, pair[1])
        /\ ~moveThrows(move(St, pair[1]), pair[2])
        /\ move(move(St, pair[1]), pair[2]) = St

\* C25: calculateDownDistance ends after at most GRID_HEIGHT probes: the
\* distance it returns, one per probe, is between 1 and GRID_HEIGHT.
C25_DownDistanceBounded ==
  calculateDownDistance(St, 0) \in 1 .. GRID_HEIGHT

\* C25 witness: the down key took the I block from row 0 to the bottom row,
\* the longest way there is.
C25_Witness ==
  /\ last = "down"
  /\ steps = 1
  /\ currentSquare = <<Sq(4, GRID_HEIGHT - 1), Sq(5, GRID_HEIGHT - 1),
                       Sq(6, GRID_HEIGHT - 1), Sq(7, GRID_HEIGHT - 1)>>

\* The block has four squares in rows 0..1 and columns 4..7, one of them in
\* row 0.
InSpawnBox(block) ==
  /\ Len(block) = 4
  /\ \A i \in DOMAIN block : block[i].y \in 0 .. 1 /\ block[i].x \in 4 .. 7
  /\ \E i \in DOMAIN block : block[i].y = 0

\* generateRandomBlock draws one of seven indices and gives, for each, the
\* catalog shape at spawn, inside the spawn box.
CatalogAsGenerated ==
  /\ ShapeIndexes = 0 .. 6
  /\ { generateRandomBlock(shapeIndex) : shapeIndex \in ShapeIndexes }
       = CatalogSpawn
  /\ \A shapeIndex \in ShapeIndexes :
        InSpawnBox(generateRandomBlock(shapeIndex))

\* C26: for each of the seven shapes the generated block has its squares at
\* (floor(GRID_WIDTH/2) + offset.x, offset.y - min offset.y): topmost square
\* in row 0, all squares in rows 0..1 and columns 4..7; the index drawn is
\* one of the seven.  The blocks of a state come from there: the next block
\* always, the current block after a restart.
C26_SpawnPosition ==
  /\ CatalogAsGenerated
  /\ InSpawnBox(nextBlock) /\ nextBlock \in CatalogSpawn
  /\ last = "restart" =>
        InSpawnBox(currentSquare) /\ currentSquare \in CatalogSpawn

\* C26 witness: a restart drew the L block, whose offsets reach row -1, as
\* current block and the I block as next block.
C26_Witness ==
  /\ last = "restart"
  /\ steps = 1
  /\ currentSquare = <<Sq(4, 1), Sq(5, 1), Sq(6, 1), Sq(6, 0)>>
  /\ nextBlock = <<Sq(4, 0), Sq(5, 0), Sq(6, 0), Sq(7, 0)>>

\* The block is the O shape: no two squares more than a column or a row
\* apart.
IsO(block) ==
  \A i \in DOMAIN block, j \in DOMAIN block :
     /\ block[i].x - block[j].x \in {-1, 0, 1}
     /\ block[i].y - block[j].y \in {-1, 0, 1}

\* C27: rotate's skip test is true exactly for the O shape, whichever way
\* the block is turned.
C27_SkipOnlyO ==
  \A n \in 0 .. 3 :
     isSquareBlock(TurnedTimes(St, "left", n)) <=> IsO(currentSquare)

\* C27 witness: a rotation was not skipped: it stood the I block upright.
C27_Witness ==
  /\ last = "rotateLeft"
  /\ ~isSquareBlock(St)
  /\ \A i \in DOMAIN currentSquare : currentSquare[i].x = currentSquare[1].x

\* The block turned by a quarter about the origin.
Quarter(block) ==
  [i \in DOMAIN block |-> Sq(0 - block[i].y, block[i].x)]

\* The set of the block's squares, moved to touch both axes.
Normal(block) ==
  LET xs == { block[i].x : i \in DOMAIN block }
      ys == { block[i].y : i \in DOMAIN block }
      minX == CHOOSE m \in xs : \A v \in xs : m <= v
      minY == CHOOSE m \in ys : \A v \in ys : m <= v
  IN  { Sq(block[i].x - minX, block[i].y - minY) : i \in DOMAIN block }

\* The four ways a block can be turned, as sets of squares.
Forms(block) ==
  { Normal(block), Normal(Quarter(block)), Normal(Quarter(Quarter(block))),
    Normal(Quarter(Quarter(Quarter(block)))) }

\* The forms of the seven shapes.
TetrominoForms == UNION { Forms(block) : block \in CatalogSpawn }

\* The block is four distinct squares making up one of the seven shapes.
IsTetromino(block) ==
  /\ Len(block) = 4
  /\ Cardinality(Normal(block)) = 4
  /\ Normal(block) \in TetrominoForms

\* The two blocks are the same shape, moved and turned.
SameShape(a, b) ==
  \/ Normal(b) = Normal(a)
  \/ Normal(b) \in Forms(a)

\* C28: the current and the next block are each four distinct squares, a
\* catalog shape moved and turned; a move, a rotation, a drop and a tick on
\* which the block falls keep the current block's shape and the next block,
\* and a tick on which it settles makes the next block the current one.
C28_BlocksAreTetrominoes ==
  [][ /\ steps = 0 => IsTetromino(currentSquare) /\ IsTetromino(nextBlock)
      /\ IsTetromino(currentSquare') /\ IsTetromino(nextBlock')
      /\ (last' # "restart") =>
            \/ nextBlock' = nextBlock /\ SameShape(currentSquare, currentSquare')
            \/ /\ last' = "tick"
               /\ currentSquare' = nextBlock ]_vars

\* C28 witness: three actions on, a rotation has left the S block upright,
\* still an S.
C28_Witness ==
  /\ steps = 3
  /\ last \in {"rotateLeft", "rotateRight"}
  /\ Normal(currentSquare) = { Sq(0, 0), Sq(0, 1), Sq(1, 1), Sq(1, 2) }

\* C29: a move, a rotation and a drop change the current block at most:
\* grid, next block, score, level, highScore and gameEnd stay.
C29_OnlyCurrentBlockChanges ==
  [][ last' \in {"left", "right", "rotateLeft", "rotateRight", "down"} =>
        UNCHANGED <<gameState, nextBlock, score, level, highScore,
                    gameEnd>> ]_vars

\* C29 witness: the down key dropped a block onto the bottom row of the
\* Empty grid, and the grid is Empty still.
C29_Witness ==
  /\ last = "down"
  /\ steps = 2
  /\ \E i \in DOMAIN currentSquare : currentSquare[i].y = GRID_HEIGHT - 1
  /\ \A r \in Rows, c \in Cols : ~Filled(gameState, c, r)

\* C30: gameEnd is true exactly when row 0 of the grid has a Filled cell.
C30_EndedIffTopRowFilled ==
  gameEnd <=> TopRowFilled(gameState)

\* C30 witness: the game has ended with a Filled cell in row 0, and a move
\* came after that.
C30_Witness ==
  /\ gameEnd
  /\ TopRowFilled(gameState)
  /\ last \in {"left", "right"}
  /\ steps >= 2

\* The step is a tick on which the current block settles.
SettlingTick ==
  last' = "tick" /\ ~gameEnd /\ Rests(currentSquare, gameState)

\* C31: while a block is the current block the row of its first square
\* never decreases, whatever is done to it; a tick in a Running state
\* settles the block or moves that row down by one, and it moves it only
\* from a row above the bottom row, so that a block sees fewer than
\* GRID_HEIGHT falling ticks before the tick that settles it.
C31_PivotRowOnlyGrows ==
  [][ /\ (last' # "restart" /\ ~SettlingTick) =>
            currentSquare'[1].y >= currentSquare[1].y
      /\ (last' = "tick" /\ ~gameEnd /\ ~SettlingTick) =>
            /\ currentSquare'[1].y = currentSquare[1].y + 1
            /\ currentSquare[1].y >= 0
            /\ currentSquare[1].y < GRID_HEIGHT - 1
      /\ SettlingTick => currentSquare' = nextBlock ]_vars

\* C31 witness: a block was turned, which moved its other squares up, and
\* the tick after that moved its first square down to row 18.
C31_Witness ==
  /\ last = "tick"
  /\ steps >= 2
  /\ currentSquare[1].y = GRID_HEIGHT - 2
  /\ \E i \in DOMAIN currentSquare :
        currentSquare[i].y <= currentSquare[1].y - 2

\* C33 as stated: after a tick the grid has no full row, and score and
\* level grow on a tick only when the block settles on it.
C33_NoFullRowAfterTick ==
  [][ last' = "tick" =>
        /\ ~HasFullRow(gameState')
        /\ (score' # score \/ level' # level) =>
              Rests(currentSquare, gameState) ]_vars

\* The Filled cells of the grid.
FilledCells(grid) ==
  { Sq(c, r) : <<r, c>> \in { rc \in Rows \X Cols : grid[rc[1]][rc[2]] } }

\* The squares of the block, as a set.
Squares(block) == { block[i] : i \in DOMAIN block }

\* C34 as stated: a tick on which the block settles and no row is cleared
\* adds exactly the block's four squares to the Filled cells: none is
\* outside the grid, none was Filled before.
C34_SettleAddsFourCells ==
  [][ (SettlingTick /\ ~HasFullRow(Merged(currentSquare, gameState))) =>
        /\ FilledCells(gameState') \ FilledCells(gameState)
             = Squares(currentSquare)
        /\ FilledCells(gameState) \subseteq FilledCells(gameState')
        /\ Cardinality(FilledCells(gameState'))
             = Cardinality(FilledCells(gameState)) + 4 ]_vars

\* C35: score equals level, score is not negative, and highScore is not
\* below score.
C35_ScoreLevelHighScoreOrder ==
  /\ score = level
  /\ 0 <= score
  /\ highScore >= score

\* C35 witness: a restart after a line clear: score and level are 0 again
\* and highScore is 1.
C35_Witness ==
  /\ last = "restart"
  /\ score = 0
  /\ level = 0
  /\ highScore = 1

\* C36: highScore never decreases: every step leaves it the larger of
\* highScore and the new score, and a restart sets score and level to 0 and
\* keeps highScore.
C36_HighScoreMonotone ==
  [][ /\ highScore' >= highScore
      /\ highScore' = (IF score' > highScore THEN score' ELSE highScore)
      /\ last' = "restart" =>
            /\ highScore' = highScore
            /\ score' = 0
            /\ level' = 0 ]_vars

\* C36 witness: the game was restarted with a cleared line on the score,
\* and highScore still says so.
C36_Witness ==
  /\ last = "restart"
  /\ steps = 3
  /\ gameState = EmptyGrid
  /\ highScore > score

\* C37: in a Running state with the block inside the grid and over Empty
\* cells, a rotation that changes the block followed by the opposite
\* rotation gives back the state, each square where it was.
C37_RotateRoundTrip ==
  \A pair \in {<<"left", "right">>, <<"right", "left">>} :
     (~gameEnd /\ Free(currentSquare, gameState)
        /\ rotate(St, pair[1]) # St) =>
        rotate(rotate(St, pair[1]), pair[2]) = St

\* C37 witness: rotateLeft and then rotateRight were applied to the I block
\* that had fallen 17 rows, and it lies as it lay.
C37_Witness ==
  /\ last = "rotateRight"
  /\ steps = 2
  /\ gameState = EmptyGrid
  /\ currentSquare = <<Sq(4, 17), Sq(5, 17), Sq(6, 17), Sq(7, 17)>>

(***************************************************************************)
(* The timer on its own once more, late in a game without key presses:    *)
(* every block so far was an O block, and they lie on one another in      *)
(* columns 4 and 5 from the bottom row up to two or four rows below the   *)
(* top row.  The blocks that follow are drawn from all shapes.             *)
(***************************************************************************)
MaxStackTicks == 11

\* The numbers of O blocks that lie on one another.
StackBlocks == {8, 9}

\* `blocks` O blocks lie in columns 4 and 5; `cur` is the current block, at
\* its spawn position, and `next` the next block.  Each O block was dropped
\* and settled by a tick, which leaves it where the ticks that take it down
\* one row at a time leave it.
Stack(blocks, cur, next) ==
  LET place(shapeIndex) == <<Act("down", 0), Act("tick", shapeIndex)>>
  IN  scan(initialState(ShapeO, ShapeO),
           Repeat(place(ShapeO), blocks - 2) \o place(cur) \o place(next))

InitStack ==
  /\ \E blocks \in StackBlocks, cur \in ShapeIndexes, next \in ShapeIndexes :
       LET s == Stack(blocks, cur, next)
       IN  /\ gameEnd = s.gameEnd
           /\ gameState = s.gameState
           /\ currentSquare = s.currentSquare
           /\ score = s.score
           /\ nextBlock = s.nextBlock
           /\ level = s.level
           /\ highScore = s.highScore
  /\ threw = FALSE
  /\ last = "none"
  /\ steps = 0

TickStack ==
  /\ steps < MaxStackTicks
  /\ steps' = steps + 1
  /\ last' = "tick"
  /\ \E t \in tick(St, ShapeIndexes) : Returns(t)

NextStack == TickStack

\* What a TickStack step does to steps.  tick returns a state for every
\* state, so that TickStack is enabled exactly when TickCounted is, and the
\* steps of NextStack that change steps are the TickStack steps.
TickCounted ==
  /\ steps < MaxStackTicks
  /\ steps' = steps + 1

\* The interval timer never stops: a tick that can be consumed is consumed.
SpecStack == InitStack /\ [][NextStack]_vars /\ WF_steps(TickCounted)

\* The columns in which the blocks spawn.
SpawnColumns ==
  { generateRandomBlock(shapeIndex)[i].x :
      shapeIndex \in ShapeIndexes, i \in 1..4 }

\* C32: with ticks only, and ticks without end, the blocks lie in the
\* columns they spawn in, these are not all the columns, so that no row is
\* ever full and nothing is scored, and whatever blocks are drawn the game
\* reaches the Ended state.
C32_TicksOnlyEnds ==
  /\ [](/\ \A sq \in FilledCells(gameState) : sq.x \in SpawnColumns
        /\ SpawnColumns # Cols
        /\ ~HasFullRow(gameState)
        /\ score = 0)
  /\ <>gameEnd

\* C32 witness: ticks alone have ended the game on top of a block that
\* settled one row below the top row, with nothing outside the spawn
\* columns and nothing scored.
C32_Witness ==
  /\ gameEnd
  /\ last = "tick"
  /\ steps >= 3
  /\ score = 0
  /\ \A sq \in FilledCells(gameState) : sq.x \in SpawnColumns

====
